---- MODULE Spec2Model ----
(***************************************************************************)
(* Model of DelugeClient.ForceReannounce of deluge-reannounce, in its two  *)
(* revisions:                                                              *)
(*   "status"  - src/unnamed/part_003, lines 148-199: returns bool, checks *)
(*               the torrent status after every reannounce command;        *)
(*   "command" - src/main.go, lines 148-175: returns error, succeeds as    *)
(*               soon as one reannounce command is accepted.               *)
(*                                                                         *)
(* Time is discrete; one unit is one second.  The call starts at now = 0.  *)
(* time.NewTicker(interval) sends a tick on a channel of capacity one at   *)
(* interval, 2*interval, ... and drops the tick when the channel is full.  *)
(* time.After(timeout) sends once, at timeout.  The ticker is created      *)
(* before the timeout timer, so when both expire at the same instant the   *)
(* ticker's send comes first.  A select that finds both channels ready     *)
(* takes either one.  Statements take no time; the session calls take      *)
(* between 0 and MaxCallDur units and time.Sleep takes its argument.       *)
(***************************************************************************)
EXTENDS Integers, Sequences

\* ---- bounds of the model ----
MaxTimeout  == 4       \* timeout ranges over 1..MaxTimeout
MaxInterval == 4       \* interval ranges over 1..MaxInterval
MaxCallDur  == 2       \* a session call lasts 0..MaxCallDur
MaxAttempts == 6       \* the counters saturate here: MaxAttempts stands
                       \* for "MaxAttempts or more"
MaxConfig   == 2       \* retry.timeout and retry.interval of the config file
                       \* range over -1..MaxConfig
MaxCalls    == 2       \* the logger test calls each method 0..MaxCalls times

\* ---- program constants ----
Grace == 2             \* time.Sleep(2 * time.Second)

TorrentStates   == {"Downloading", "Seeding", "Checking"}
TrackerStatuses == {"Announce OK", "Announce Sent"}
Snapshots       == [State : TorrentStates, TrackerStatus : TrackerStatuses]
NoStatus        == [State |-> "", TrackerStatus |-> ""]

VARIABLES
  revision,     \* "status" (part_003) or "command" (main.go)
  timeout,      \* argument timeout
  interval,     \* argument interval
  now,          \* time elapsed since the call started (saturates at MaxNow)
  tickIn,       \* time until the ticker's next expiry
  tickReady,    \* a tick is buffered in ticker.C
  timeoutReady, \* the value of time.After is buffered in timeoutChan
  pc,           \* "top", "select", "trigger", "sleep", "fetch", "done";
                \* "idle" before main has called ForceReannounce
  remaining,    \* time until the current session call or sleep returns
  attempts,     \* local variable attempts
  status,       \* local variable status (last snapshot fetched)
  lastErr,      \* the error kept for the caller: main.go's lastErr, 0 when
                \* nil, else the ordinal of the reannounce command whose
                \* error it holds; part_003 keeps none
  result,       \* "none"; "success"/"timeout" (bool true/false);
                \* "nil"/"error" (main.go)
  nTrigger,     \* history: reannounce commands sent
  nFetch,       \* history: status fetches issued
  lastOutcome,  \* history: how the latest attempt ended ("pending" while
                \* it is under way)
  firstSat,     \* history: ordinal of the first attempt whose snapshot
                \* satisfied the success condition, 0 when none did
  sinceTrigger, \* history: time since the latest reannounce command was
                \* sent (since the call started, before the first one);
                \* saturates at interval
  overrun,      \* history: an attempt has lasted one interval or more
  mainPc,       \* main: "load", "logger", "args", "connect", "invoke",
                \* "call", "exited", "panicked"; the logger test: "test",
                \* "testing"
  config,       \* main: config.Retry, as read from the file until
                \* loadConfig has run, then as loadConfig returns it
  nargs,        \* main: len(flag.Args())
  connected,    \* main: client.Connect() has succeeded
  closed,       \* main: client.Close() has been called
  exitCode,     \* main: exit code of the process, -1 while it runs
  logging,      \* main: config.Logging, as read from the file until
                \* loadConfig has run, then as loadConfig returns it
  level,        \* Logger.level
  logFile,      \* the log file: how many times each entry was written
  nConnect,     \* history: calls of client.Connect made by main
  calls,        \* history: calls of Info, Debug and Error made by the
                \* logger test (TestNewLogger)
  sinceReturn   \* history: time spent so far in the current time.Sleep,
                \* 0 outside it; saturates at Grace

vars == <<revision, timeout, interval, now, tickIn, tickReady, timeoutReady,
          pc, remaining, attempts, status, lastErr, result,
          nTrigger, nFetch, lastOutcome, firstSat, sinceTrigger, overrun,
          mainPc, config, nargs, connected, closed, exitCode,
          logging, level, logFile, nConnect, calls, sinceReturn>>

\* The state of main, which ForceReannounce does not touch
mainVars  == <<mainPc, config, nargs, connected, closed, exitCode,
               logging, level, nConnect, calls>>

timerVars == <<now, tickIn, tickReady, timeoutReady>>
argVars   == <<revision, timeout, interval, mainVars>>
histVars  == <<nTrigger, nFetch, lastOutcome, firstSat>>

\* The clock saturates here, after every deadline
MaxNow == (IF timeout > 0 THEN timeout ELSE 0) + 4

\* n++ on a counter of the model (exact below MaxAttempts)
Inc(n) == IF n < MaxAttempts THEN n + 1 ELSE n

\* ------------------------------------------------------------------------
\* Logger (part_003 lines 35-89)
\* ------------------------------------------------------------------------

\* A logging level is a string, kept as the sequence of its characters.
LevelInfo  == <<"I", "N", "F", "O">>
LevelDebug == <<"D", "E", "B", "U", "G">>

LowerCase == <<"d", "e", "b", "u", "g", "i", "n", "f", "o">>
UpperCase == <<"D", "E", "B", "U", "G", "I", "N", "F", "O">>

\* strings.ToUpper, on the letters the levels are made of
UpperChar(c) ==
  IF \E i \in DOMAIN LowerCase : LowerCase[i] = c
    THEN UpperCase[CHOOSE i \in DOMAIN LowerCase : LowerCase[i] = c]
    ELSE c
ToUpper(str) == [i \in 1..Len(str) |-> UpperChar(str[i])]

\* What the program writes through its Logger.
Messages == {"usage", "request", "connectError", "starting", "failed",
             "attempt", "attemptFailed", "success", "statusDetails",
             "test"}

\* An entry of the log file: the prefix of the log.Logger that wrote it
\* ("INFO: " or "DEBUG: "), whether the text starts with "ERROR: ", and the
\* message.
LogEntries == [prefix : {"INFO", "DEBUG"}, error : BOOLEAN, msg : Messages]
EmptyLog   == [e \in LogEntries |-> 0]
NoCalls    == [Info |-> 0, Debug |-> 0, Error |-> 0]
Write(f, e) == [f EXCEPT ![e] = Inc(@)]

\* LoggerError that writes at every level, as Info does
LoggerErrorUngated(f, lvl, m) ==
  Write(f, [prefix |-> "DEBUG", error |-> TRUE, msg |-> m])

\* part_003 lines 67-70: Info writes through infoLogger.
LoggerInfo(f, lvl, m) ==
  Write(f, [prefix |-> "INFO", error |-> FALSE, msg |-> m])

\* part_003 lines 72-77: Debug writes through debugLogger when the level
\* is "DEBUG".
LoggerDebug(f, lvl, m) ==
  IF lvl = LevelDebug
    THEN Write(f, [prefix |-> "DEBUG", error |-> FALSE, msg |-> m])
    ELSE f

\* part_003 lines 79-84: Error writes "ERROR: " and the message through
\* debugLogger when the level is "DEBUG".
LoggerError(f, lvl, m) ==
  IF lvl = LevelDebug
    THEN Write(f, [prefix |-> "DEBUG", error |-> TRUE, msg |-> m])
    ELSE f

\* IsSuccess that accepts the state Downloading only
IsSuccessDownloadingOnly(s) ==
  s.State = "Downloading" /\ s.TrackerStatus = "Announce OK"

\* IsSuccess with the two conditions joined by "or"
IsSuccessEither(s) ==
  (s.State = "Downloading" \/ s.State = "Seeding")
    \/ s.TrackerStatus = "Announce OK"

\* part_003 line 191: the success condition on a fetched snapshot
IsSuccess(s) ==
  (s.State = "Downloading" \/ s.State = "Seeding")
    /\ s.TrackerStatus = "Announce OK"

\* Init with a ticker that fires at once (first attempt at t = 0)
InitTickAtZero ==
  /\ revision \in {"status", "command"}
  /\ timeout \in 1..MaxTimeout
  /\ interval \in 1..MaxInterval
  /\ now = 0
  /\ tickIn = 0
  /\ tickReady = FALSE
  /\ timeoutReady = FALSE
  /\ pc = IF revision = "status" THEN "select" ELSE "top"
  /\ remaining = 0
  /\ attempts = 0
  /\ status = NoStatus
  /\ lastErr = 0
  /\ result = "none"
  /\ nTrigger = 0
  /\ nFetch = 0
  /\ lastOutcome = "none"
  /\ firstSat = 0
  /\ sinceTrigger = 0
  /\ overrun = FALSE
  /\ mainPc = "call"
  /\ config = [Timeout |-> timeout, Interval |-> interval]
  /\ nargs = 3
  /\ connected = TRUE
  /\ nConnect = 1
  /\ closed = FALSE
  /\ exitCode = -1
  /\ logging = [File |-> "deluge-reannounce.log", Level |-> LevelInfo]
  /\ level = LevelInfo
  /\ logFile = EmptyLog
  /\ calls = NoCalls
  /\ sinceReturn = 0

\* State after ticker, timeoutChan and the locals are set up (lines 149-154):
\* the bool revision is about to enter the select, main.go is at the top of
\* the for loop (before attempts++).  ForceReannounce is called directly, on
\* a connected client, with a positive timeout and interval.
Init ==
  /\ revision \in {"status", "command"}
  /\ timeout \in 1..MaxTimeout
  /\ interval \in 1..MaxInterval
  /\ now = 0
  /\ tickIn = interval
  /\ tickReady = FALSE
  /\ timeoutReady = FALSE
  /\ pc = IF revision = "status" THEN "select" ELSE "top"
  /\ remaining = 0
  /\ attempts = 0
  /\ status = NoStatus
  /\ lastErr = 0
  /\ result = "none"
  /\ nTrigger = 0
  /\ nFetch = 0
  /\ lastOutcome = "none"
  /\ firstSat = 0
  /\ sinceTrigger = 0
  /\ overrun = FALSE
  /\ mainPc = "call"
  /\ config = [Timeout |-> timeout, Interval |-> interval]
  /\ nargs = 3
  /\ connected = TRUE
  /\ nConnect = 1
  /\ closed = FALSE
  /\ exitCode = -1
  /\ logging = [File |-> "deluge-reannounce.log", Level |-> LevelInfo]
  /\ level = LevelInfo
  /\ logFile = EmptyLog
  /\ calls = NoCalls
  /\ sinceReturn = 0

\* overrun, when an attempt ends now
Ended == overrun \/ sinceTrigger >= interval

\* The goroutine can take a step without time passing.
SelectReady == pc = "select" /\ (tickReady \/ timeoutReady)
CallDue     == pc \in {"trigger", "sleep", "fetch"} /\ remaining = 0
Runnable    == SelectReady \/ CallDue \/ pc = "top"

\* The ticker expires: a tick is put in ticker.C, or dropped when one is
\* already buffered; the next expiry is one interval later.
TickerFire ==
  /\ pc # "done"
  /\ tickIn = 0
  /\ tickIn' = interval
  /\ tickReady' = TRUE
  /\ UNCHANGED <<argVars, now, timeoutReady, pc, remaining, attempts, status,
                 lastErr, result, histVars>>
  /\ UNCHANGED sinceTrigger
  /\ UNCHANGED overrun
  /\ UNCHANGED sinceReturn
  /\ UNCHANGED logFile

\* TimeoutFire with the timeout timer started before the ticker
TimeoutFireUnordered ==
  /\ pc # "done"
  /\ now >= timeout
  /\ ~timeoutReady
  /\ timeoutReady' = TRUE
  /\ UNCHANGED <<argVars, now, tickIn, tickReady, pc, remaining, attempts,
                 status, lastErr, result, histVars>>
  /\ UNCHANGED sinceTrigger
  /\ UNCHANGED overrun
  /\ UNCHANGED sinceReturn
  /\ UNCHANGED logFile

\* The timer of time.After expires.  It was started after the ticker, so an
\* expiry of the ticker due at the same instant comes first, and a goroutine
\* that is in the select with a tick to receive has received it.
TimeoutFire ==
  /\ pc # "done"
  /\ now >= timeout
  /\ ~timeoutReady
  /\ tickIn # 0
  /\ ~(pc = "select" /\ tickReady)
  /\ timeoutReady' = TRUE
  /\ UNCHANGED <<argVars, now, tickIn, tickReady, pc, remaining, attempts,
                 status, lastErr, result, histVars>>
  /\ UNCHANGED sinceTrigger
  /\ UNCHANGED overrun
  /\ UNCHANGED sinceReturn
  /\ UNCHANGED logFile

\* One unit of time passes while the goroutine is blocked (in the select with
\* nothing to receive, in a session call, or in time.Sleep).
Advance ==
  /\ pc # "done"
  /\ ~Runnable
  /\ tickIn > 0
  /\ ~(now >= timeout /\ ~timeoutReady)
  /\ now' = IF now < MaxNow THEN now + 1 ELSE now
  /\ tickIn' = tickIn - 1
  /\ remaining' = IF remaining > 0 THEN remaining - 1 ELSE 0
  /\ UNCHANGED <<argVars, tickReady, timeoutReady, pc, attempts, status,
                 lastErr, result, histVars>>
  /\ sinceTrigger' = IF sinceTrigger < interval THEN sinceTrigger + 1
                      ELSE sinceTrigger
  /\ UNCHANGED overrun
  /\ sinceReturn' = IF pc = "sleep" /\ sinceReturn < Grace
                      THEN sinceReturn + 1 ELSE sinceReturn
  /\ UNCHANGED logFile

\* SelectTimeout with the tick given priority over the deadline
SelectTimeoutAfterTicks ==
  /\ revision = "status"
  /\ pc = "select"
  /\ timeoutReady
  /\ ~tickReady
  /\ timeoutReady' = FALSE
  /\ pc' = "done"
  /\ result' = "timeout"
  /\ UNCHANGED <<argVars, now, tickIn, tickReady, remaining, attempts, status,
                 lastErr, histVars>>
  /\ UNCHANGED sinceTrigger
  /\ UNCHANGED overrun
  /\ UNCHANGED sinceReturn
  /\ UNCHANGED logFile

\* part_003 lines 157-159: case <-timeoutChan: return false
SelectTimeout ==
  /\ revision = "status"
  /\ pc = "select"
  /\ timeoutReady
  /\ timeoutReady' = FALSE
  /\ pc' = "done"
  /\ result' = "timeout"
  /\ UNCHANGED <<argVars, now, tickIn, tickReady, remaining, attempts, status,
                 lastErr, histVars>>
  /\ UNCHANGED sinceTrigger
  /\ UNCHANGED overrun
  /\ UNCHANGED sinceReturn
  /\ UNCHANGED logFile

\* SelectTick that fetches the status before any reannounce command is sent
SelectTickFetchFirst ==
  /\ revision = "status"
  /\ pc = "select"
  /\ tickReady
  /\ tickReady' = FALSE
  /\ attempts' = Inc(attempts)
  /\ nFetch' = Inc(nFetch)
  /\ pc' = "fetch"
  /\ lastOutcome' = "pending"
  /\ \E d \in 0..MaxCallDur : remaining' = d
  /\ UNCHANGED <<argVars, now, tickIn, timeoutReady, status, lastErr, result,
                 nTrigger, firstSat>>
  /\ sinceTrigger' = 0
  /\ UNCHANGED overrun
  /\ UNCHANGED sinceReturn
  /\ UNCHANGED logFile

\* SelectTick that does not count an attempt that follows a failed command
SelectTickUncounted ==
  /\ revision = "status"
  /\ pc = "select"
  /\ tickReady
  /\ tickReady' = FALSE
  /\ attempts' = IF lastOutcome = "triggerError" THEN attempts
                  ELSE Inc(attempts)
  /\ nTrigger' = Inc(nTrigger)
  /\ pc' = "trigger"
  /\ lastOutcome' = "pending"
  /\ \E d \in 0..MaxCallDur : remaining' = d
  /\ UNCHANGED <<argVars, now, tickIn, timeoutReady, status, lastErr, result,
                 nFetch, firstSat>>
  /\ sinceTrigger' = 0
  /\ UNCHANGED overrun
  /\ UNCHANGED sinceReturn
  /\ UNCHANGED logFile

\* part_003 lines 160-164: case <-ticker.C: attempts++, then the call of
\* d.client.ForceReannounce is issued.
SelectTick ==
  /\ revision = "status"
  /\ pc = "select"
  /\ tickReady
  /\ tickReady' = FALSE
  /\ attempts' = Inc(attempts)
  /\ nTrigger' = Inc(nTrigger)
  /\ pc' = "trigger"
  /\ lastOutcome' = "pending"
  /\ \E d \in 0..MaxCallDur : remaining' = d
  /\ UNCHANGED <<argVars, now, tickIn, timeoutReady, status, lastErr, result,
                 nFetch, firstSat>>
  /\ sinceTrigger' = 0
  /\ UNCHANGED overrun
  /\ UNCHANGED sinceReturn
  /\ UNCHANGED logFile

\* TriggerReturn that goes on to the pause and the status fetch after an error
TriggerReturnIgnoresError ==
  /\ revision = "status"
  /\ pc = "trigger"
  /\ remaining = 0
  /\ \E err \in BOOLEAN :
        IF err
          THEN /\ pc' = "sleep"
               /\ remaining' = Grace
               /\ lastOutcome' = "triggerError"
          ELSE /\ pc' = "sleep"
               /\ remaining' = Grace
               /\ UNCHANGED lastOutcome
  /\ UNCHANGED <<argVars, timerVars, attempts, status, lastErr, result,
                 nTrigger, nFetch, firstSat>>
  /\ UNCHANGED sinceTrigger
  /\ UNCHANGED overrun
  /\ sinceReturn' = 0
  /\ UNCHANGED logFile

\* TriggerReturn with "return false" in place of "continue"
TriggerReturnFatal ==
  /\ revision = "status"
  /\ pc = "trigger"
  /\ remaining = 0
  /\ \E err \in BOOLEAN :
        IF err
          THEN /\ pc' = "done"
               /\ remaining' = 0
               /\ result' = "timeout"
               /\ lastOutcome' = "triggerError"
          ELSE /\ pc' = "sleep"
               /\ remaining' = Grace
               /\ UNCHANGED <<lastOutcome, result>>
  /\ UNCHANGED <<argVars, timerVars, attempts, status, lastErr,
                 nTrigger, nFetch, firstSat>>
  /\ UNCHANGED sinceTrigger
  /\ overrun' = IF pc' = "sleep" THEN overrun ELSE Ended
  /\ sinceReturn' = 0
  /\ UNCHANGED logFile

\* part_003 lines 164-171: d.client.ForceReannounce returns; on an error the
\* loop continues, otherwise time.Sleep(2 * time.Second) starts.
TriggerReturn ==
  /\ revision = "status"
  /\ pc = "trigger"
  /\ remaining = 0
  /\ \E err \in BOOLEAN :
        IF err
          THEN /\ pc' = "select"
               /\ remaining' = 0
               /\ lastOutcome' = "triggerError"
          ELSE /\ pc' = "sleep"
               /\ remaining' = Grace
               /\ UNCHANGED lastOutcome
  /\ UNCHANGED <<argVars, timerVars, attempts, status, lastErr, result,
                 nTrigger, nFetch, firstSat>>
  /\ UNCHANGED sinceTrigger
  /\ overrun' = IF pc' = "sleep" THEN overrun ELSE Ended
  /\ sinceReturn' = 0
  /\ UNCHANGED logFile

\* SleepDone with a sleep that may return at any moment
SleepDoneEarly ==
  /\ revision = "status"
  /\ pc = "sleep"
  /\ pc' = "fetch"
  /\ nFetch' = Inc(nFetch)
  /\ \E d \in 0..MaxCallDur : remaining' = d
  /\ UNCHANGED <<argVars, timerVars, attempts, status, lastErr, result,
                 nTrigger, lastOutcome, firstSat>>
  /\ UNCHANGED sinceTrigger
  /\ UNCHANGED overrun
  /\ sinceReturn' = 0
  /\ UNCHANGED logFile

\* part_003 lines 171-174: the sleep is over, d.GetTorrentStatus is called.
SleepDone ==
  /\ revision = "status"
  /\ pc = "sleep"
  /\ remaining = 0
  /\ pc' = "fetch"
  /\ nFetch' = Inc(nFetch)
  /\ \E d \in 0..MaxCallDur : remaining' = d
  /\ UNCHANGED <<argVars, timerVars, attempts, status, lastErr, result,
                 nTrigger, lastOutcome, firstSat>>
  /\ UNCHANGED sinceTrigger
  /\ UNCHANGED overrun
  /\ sinceReturn' = 0
  /\ UNCHANGED logFile

\* FetchReturn that goes on with the loop after a successful snapshot
FetchReturnNoReturn ==
  /\ revision = "status"
  /\ pc = "fetch"
  /\ remaining = 0
  /\ \/ /\ pc' = "select"
        /\ lastOutcome' = "fetchError"
        /\ UNCHANGED <<status, result, firstSat, logFile>>
     \/ \E s \in Snapshots :
          /\ status' = s
          /\ logFile' = LoggerDebug(logFile, level, "statusDetails")
          /\ firstSat' = IF IsSuccess(s) /\ firstSat = 0
                           THEN nTrigger ELSE firstSat
          /\ IF IsSuccess(s)
               THEN /\ pc' = "select"
                    /\ result' = "success"
                    /\ lastOutcome' = "announced"
               ELSE /\ pc' = "select"
                    /\ lastOutcome' = "notYet"
                    /\ UNCHANGED result
  /\ UNCHANGED <<argVars, timerVars, remaining, attempts, lastErr,
                 nTrigger, nFetch>>
  /\ UNCHANGED sinceTrigger
  /\ overrun' = Ended
  /\ UNCHANGED sinceReturn

\* FetchReturn with "return false" in place of the first "continue"
FetchReturnFatal ==
  /\ revision = "status"
  /\ pc = "fetch"
  /\ remaining = 0
  /\ \/ /\ pc' = "done"
        /\ result' = "timeout"
        /\ lastOutcome' = "fetchError"
        /\ UNCHANGED <<status, firstSat, logFile>>
     \/ \E s \in Snapshots :
          /\ status' = s
          /\ logFile' = LoggerDebug(logFile, level, "statusDetails")
          /\ firstSat' = IF IsSuccess(s) /\ firstSat = 0
                           THEN nTrigger ELSE firstSat
          /\ IF IsSuccess(s)
               THEN /\ pc' = "done"
                    /\ result' = "success"
                    /\ lastOutcome' = "announced"
               ELSE /\ pc' = "select"
                    /\ lastOutcome' = "notYet"
                    /\ UNCHANGED result
  /\ UNCHANGED <<argVars, timerVars, remaining, attempts, lastErr,
                 nTrigger, nFetch>>
  /\ UNCHANGED sinceTrigger
  /\ overrun' = Ended
  /\ UNCHANGED sinceReturn

\* part_003 lines 174-196 and 201-241: GetTorrentStatus returns an error
\* (continue) or, after logging the details at level DEBUG, a snapshot, which
\* is evaluated: return true, or fall out of the select.
FetchReturn ==
  /\ revision = "status"
  /\ pc = "fetch"
  /\ remaining = 0
  /\ \/ /\ pc' = "select"
        /\ lastOutcome' = "fetchError"
        /\ UNCHANGED <<status, result, firstSat, logFile>>
     \/ \E s \in Snapshots :
          /\ status' = s
          /\ logFile' = LoggerDebug(logFile, level, "statusDetails")
          /\ firstSat' = IF IsSuccess(s) /\ firstSat = 0
                           THEN nTrigger ELSE firstSat
          /\ IF IsSuccess(s)
               THEN /\ pc' = "done"
                    /\ result' = "success"
                    /\ lastOutcome' = "announced"
               ELSE /\ pc' = "select"
                    /\ lastOutcome' = "notYet"
                    /\ UNCHANGED result
  /\ UNCHANGED <<argVars, timerVars, remaining, attempts, lastErr,
                 nTrigger, nFetch>>
  /\ UNCHANGED sinceTrigger
  /\ overrun' = Ended
  /\ UNCHANGED sinceReturn

\* main.go lines 156-157: top of the for loop, attempts++ before the select.
LoopTop ==
  /\ revision = "command"
  /\ pc = "top"
  /\ attempts' = Inc(attempts)
  /\ pc' = "select"
  /\ UNCHANGED <<argVars, timerVars, remaining, status, lastErr, result,
                 histVars>>
  /\ UNCHANGED sinceTrigger
  /\ UNCHANGED overrun
  /\ UNCHANGED sinceReturn
  /\ UNCHANGED logFile

\* main.go lines 159-163: case <-timeoutChan: an error wrapping lastErr when
\* lastErr is not nil, otherwise nil.
CmdSelectTimeout ==
  /\ revision = "command"
  /\ pc = "select"
  /\ timeoutReady
  /\ timeoutReady' = FALSE
  /\ pc' = "done"
  /\ result' = IF lastErr # 0 THEN "error" ELSE "nil"
  /\ UNCHANGED <<argVars, now, tickIn, tickReady, remaining, attempts, status,
                 lastErr, histVars>>
  /\ UNCHANGED sinceTrigger
  /\ UNCHANGED overrun
  /\ UNCHANGED sinceReturn
  /\ UNCHANGED logFile

\* main.go lines 164-166: case <-ticker.C: the attempt is logged (Debug) and
\* d.client.ForceReannounce is called.
CmdSelectTick ==
  /\ revision = "command"
  /\ pc = "select"
  /\ tickReady
  /\ tickReady' = FALSE
  /\ logFile' = LoggerDebug(logFile, level, "attempt")
  /\ nTrigger' = Inc(nTrigger)
  /\ pc' = "trigger"
  /\ lastOutcome' = "pending"
  /\ \E d \in 0..MaxCallDur : remaining' = d
  /\ UNCHANGED <<argVars, now, tickIn, timeoutReady, attempts, status, lastErr,
                 result, nFetch, firstSat>>
  /\ sinceTrigger' = 0
  /\ UNCHANGED overrun
  /\ UNCHANGED sinceReturn

\* CmdTriggerReturn that keeps the first error instead of the latest
CmdTriggerReturnKeepsFirst ==
  /\ revision = "command"
  /\ pc = "trigger"
  /\ remaining = 0
  /\ \E err \in BOOLEAN :
        IF err
          THEN /\ lastErr' = IF lastErr = 0 THEN nTrigger ELSE lastErr
               /\ logFile' = LoggerDebug(logFile, level, "attemptFailed")
               /\ pc' = "top"
               /\ lastOutcome' = "triggerError"
               /\ UNCHANGED result
          ELSE /\ logFile' = LoggerInfo(logFile, level, "success")
               /\ pc' = "done"
               /\ result' = "nil"
               /\ lastOutcome' = "accepted"
               /\ UNCHANGED lastErr
  /\ UNCHANGED <<argVars, timerVars, remaining, attempts, status,
                 nTrigger, nFetch, firstSat>>
  /\ UNCHANGED sinceTrigger
  /\ overrun' = Ended
  /\ UNCHANGED sinceReturn

\* main.go lines 166-172: d.client.ForceReannounce returns; an error is kept
\* in lastErr and logged (Debug) and the loop continues, otherwise the
\* success is logged (Info) and the call returns nil.
CmdTriggerReturn ==
  /\ revision = "command"
  /\ pc = "trigger"
  /\ remaining = 0
  /\ \E err \in BOOLEAN :
        IF err
          THEN /\ lastErr' = nTrigger
               /\ logFile' = LoggerDebug(logFile, level, "attemptFailed")
               /\ pc' = "top"
               /\ lastOutcome' = "triggerError"
               /\ UNCHANGED result
          ELSE /\ logFile' = LoggerInfo(logFile, level, "success")
               /\ pc' = "done"
               /\ result' = "nil"
               /\ lastOutcome' = "accepted"
               /\ UNCHANGED lastErr
  /\ UNCHANGED <<argVars, timerVars, remaining, attempts, status,
                 nTrigger, nFetch, firstSat>>
  /\ UNCHANGED sinceTrigger
  /\ overrun' = Ended
  /\ UNCHANGED sinceReturn

Next ==
  \/ TickerFire
  \/ TimeoutFire
  \/ Advance
  \/ SelectTimeout
  \/ SelectTick
  \/ TriggerReturn
  \/ SleepDone
  \/ FetchReturn
  \/ LoopTop
  \/ CmdSelectTimeout
  \/ CmdSelectTick
  \/ CmdTriggerReturn

Spec == Init /\ [][Next]_vars

\* The scenario of the specification: timeout = 10, interval = 3.
ScenarioInit ==
  /\ revision \in {"status", "command"}
  /\ timeout = 10
  /\ interval = 3
  /\ now = 0
  /\ tickIn = interval
  /\ tickReady = FALSE
  /\ timeoutReady = FALSE
  /\ pc = IF revision = "status" THEN "select" ELSE "top"
  /\ remaining = 0
  /\ attempts = 0
  /\ status = NoStatus
  /\ lastErr = 0
  /\ result = "none"
  /\ nTrigger = 0
  /\ nFetch = 0
  /\ lastOutcome = "none"
  /\ firstSat = 0
  /\ sinceTrigger = 0
  /\ overrun = FALSE
  /\ mainPc = "call"
  /\ config = [Timeout |-> timeout, Interval |-> interval]
  /\ nargs = 3
  /\ connected = TRUE
  /\ nConnect = 1
  /\ closed = FALSE
  /\ exitCode = -1
  /\ logging = [File |-> "deluge-reannounce.log", Level |-> LevelInfo]
  /\ level = LevelInfo
  /\ logFile = EmptyLog
  /\ calls = NoCalls
  /\ sinceReturn = 0

ScenarioSpec == ScenarioInit /\ [][Next]_vars

\* The runtime runs expired timers, the clock advances and a runnable
\* goroutine runs (weak fairness).  A select with several ready channels
\* chooses uniformly at random, so a channel that is ready at infinitely many
\* selects is eventually chosen (strong fairness).
FairSpec ==
  /\ Spec
  /\ WF_vars(TickerFire) /\ WF_vars(TimeoutFire) /\ WF_vars(Advance)
  /\ WF_vars(TriggerReturn) /\ WF_vars(SleepDone) /\ WF_vars(FetchReturn)
  /\ WF_vars(LoopTop) /\ WF_vars(CmdTriggerReturn)
  /\ SF_vars(SelectTimeout) /\ SF_vars(SelectTick)
  /\ SF_vars(CmdSelectTimeout) /\ SF_vars(CmdSelectTick)

\* ------------------------------------------------------------------------
\* main: configuration, arguments, connection, the call and the exit
\* ------------------------------------------------------------------------

\* part_003 lines 110-115: the values loadConfig puts in place of 0.
DefaultTimeout  == 120
DefaultInterval == 7

\* The state of a ForceReannounce call.
callVars == <<now, tickIn, tickReady, timeoutReady, pc, remaining, attempts,
              status, lastErr, result, nTrigger, nFetch, lastOutcome,
              firstSat, sinceTrigger, overrun>>

\* The process has just started: retry.timeout and retry.interval are what
\* the config file says (0 when the key is missing), int fields that take
\* negative values too; logging.level is missing or "debug"; no Logger
\* exists and ForceReannounce has not been called.
MainInit ==
  /\ revision \in {"status", "command"}
  /\ mainPc = "load"
  /\ config \in [Timeout : (0 - 1)..MaxConfig, Interval : (0 - 1)..MaxConfig]
  /\ logging \in [File : {""}, Level : {<<>>, <<"d", "e", "b", "u", "g">>}]
  /\ nargs \in {2, 3}
  /\ connected = FALSE
  /\ nConnect = 0
  /\ closed = FALSE
  /\ exitCode = -1
  /\ level = <<>>
  /\ logFile = EmptyLog
  /\ calls = NoCalls
  /\ timeout = 0
  /\ interval = 0
  /\ now = 0
  /\ tickIn = 0
  /\ tickReady = FALSE
  /\ timeoutReady = FALSE
  /\ pc = "idle"
  /\ remaining = 0
  /\ attempts = 0
  /\ status = NoStatus
  /\ lastErr = 0
  /\ result = "none"
  /\ nTrigger = 0
  /\ nFetch = 0
  /\ lastOutcome = "none"
  /\ firstSat = 0
  /\ sinceTrigger = 0
  /\ overrun = FALSE
  /\ sinceReturn = 0

\* loadConfig with the defaults applied to every value below 1
RetryDefaultsNonPositive(r) ==
  [Timeout  |-> IF r.Timeout <= 0 THEN DefaultTimeout ELSE r.Timeout,
   Interval |-> IF r.Interval <= 0 THEN DefaultInterval ELSE r.Interval]

\* part_003 lines 110-115: a timeout or interval of 0 is replaced by its
\* default, any other value is kept.
RetryDefaults(r) ==
  [Timeout  |-> IF r.Timeout = 0 THEN DefaultTimeout ELSE r.Timeout,
   Interval |-> IF r.Interval = 0 THEN DefaultInterval ELSE r.Interval]

\* part_003 lines 104-109: an empty log file name becomes
\* "deluge-reannounce.log", an empty level becomes "INFO".
LoggingDefaults(l) ==
  [File  |-> IF l.File = "" THEN "deluge-reannounce.log" ELSE l.File,
   Level |-> IF l.Level = <<>> THEN LevelInfo ELSE l.Level]

\* part_003 lines 92-118 and 260-263: loadConfig; a file that cannot be read
\* or parsed ends the process through log.Fatalf (which writes to stderr).
MainLoadConfig ==
  /\ mainPc = "load"
  /\ \E ok \in BOOLEAN :
        IF ok
          THEN /\ config' = RetryDefaults(config)
               /\ logging' = LoggingDefaults(logging)
               /\ mainPc' = "logger"
               /\ UNCHANGED exitCode
          ELSE /\ mainPc' = "exited"
               /\ exitCode' = 1
               /\ UNCHANGED <<config, logging>>
  /\ UNCHANGED <<revision, timeout, interval, nargs, connected, closed,
                 level, logFile, nConnect, calls, callVars, sinceReturn>>

\* part_003 lines 43-64 and 279-284: NewLogger opens the log file and keeps
\* the level in upper case; when the file cannot be opened the process ends
\* through log.Fatalf.
MainNewLogger ==
  /\ mainPc = "logger"
  /\ \E ok \in BOOLEAN :
        IF ok
          THEN /\ level' = ToUpper(logging.Level)
               /\ mainPc' = "args"
               /\ UNCHANGED exitCode
          ELSE /\ mainPc' = "exited"
               /\ exitCode' = 1
               /\ UNCHANGED level
  /\ UNCHANGED <<revision, timeout, interval, config, logging, nargs,
                 connected, closed, logFile, nConnect, calls, callVars,
                 sinceReturn>>

\* part_003 lines 287-298: len(flag.Args()) != 3 logs the usage and exits 1;
\* otherwise the request is logged.
MainCheckArgs ==
  /\ mainPc = "args"
  /\ IF nargs # 3
       THEN /\ logFile' = LoggerInfo(logFile, level, "usage")
            /\ mainPc' = "exited"
            /\ exitCode' = 1
       ELSE /\ logFile' = LoggerInfo(logFile, level, "request")
            /\ mainPc' = "connect"
            /\ UNCHANGED exitCode
  /\ UNCHANGED <<revision, timeout, interval, config, logging, nargs,
                 connected, closed, level, nConnect, calls, callVars,
                 sinceReturn>>

\* MainConnect that goes on to the call when Connect fails
MainConnectIgnoresError ==
  /\ mainPc = "connect"
  /\ nConnect' = nConnect + 1
  /\ \E ok \in BOOLEAN :
        IF ok
          THEN /\ connected' = TRUE
               /\ logFile' = LoggerInfo(logFile, level, "starting")
               /\ mainPc' = "invoke"
               /\ UNCHANGED exitCode
          ELSE /\ logFile' = LoggerInfo(logFile, level, "connectError")
               /\ mainPc' = "invoke"
               /\ UNCHANGED <<exitCode, connected>>
  /\ UNCHANGED <<revision, timeout, interval, config, logging, nargs, closed,
                 level, calls, callVars, sinceReturn>>

\* part_003 lines 314-323: client.Connect(); on an error it is logged (Info)
\* and the process exits 1, otherwise client.Close is deferred and the start
\* of the attempts is logged.
MainConnect ==
  /\ mainPc = "connect"
  /\ nConnect' = nConnect + 1
  /\ \E ok \in BOOLEAN :
        IF ok
          THEN /\ connected' = TRUE
               /\ logFile' = LoggerInfo(logFile, level, "starting")
               /\ mainPc' = "invoke"
               /\ UNCHANGED exitCode
          ELSE /\ logFile' = LoggerInfo(logFile, level, "connectError")
               /\ mainPc' = "exited"
               /\ exitCode' = 1
               /\ UNCHANGED connected
  /\ UNCHANGED <<revision, timeout, interval, config, logging, nargs, closed,
                 level, calls, callVars, sinceReturn>>

\* part_003 lines 325-328 and 148-154: timeout and interval are the config
\* values in seconds and ForceReannounce is entered.  time.NewTicker panics
\* on a non-positive interval: the deferred Close calls run and the process
\* ends with the runtime's exit code 2.  time.After with a non-positive
\* timeout is due at once.
MainCall ==
  /\ mainPc = "invoke"
  /\ timeout' = config.Timeout
  /\ interval' = config.Interval
  /\ IF config.Interval <= 0
       THEN /\ mainPc' = "panicked"
            /\ closed' = TRUE
            /\ exitCode' = 2
            /\ UNCHANGED callVars
       ELSE /\ mainPc' = "call"
            /\ now' = 0
            /\ tickIn' = config.Interval
            /\ tickReady' = FALSE
            /\ timeoutReady' = FALSE
            /\ pc' = IF revision = "status" THEN "select" ELSE "top"
            /\ remaining' = 0
            /\ attempts' = 0
            /\ status' = NoStatus
            /\ lastErr' = 0
            /\ result' = "none"
            /\ nTrigger' = 0
            /\ nFetch' = 0
            /\ lastOutcome' = "none"
            /\ firstSat' = 0
            /\ sinceTrigger' = 0
            /\ overrun' = FALSE
            /\ UNCHANGED <<closed, exitCode>>
  /\ UNCHANGED <<revision, config, logging, nargs, connected, level, logFile,
                 nConnect, calls, sinceReturn>>

\* part_003 lines 328-333 (main.go 262-267): os.Exit(0) when ForceReannounce
\* returned true (nil); otherwise logger.Error("Failed to force reannounce")
\* and os.Exit(1).  os.Exit does not run deferred calls.
MainExit ==
  /\ mainPc = "call"
  /\ pc = "done"
  /\ mainPc' = "exited"
  /\ IF result \in {"success", "nil"}
       THEN exitCode' = 0 /\ UNCHANGED logFile
       ELSE /\ logFile' = LoggerError(logFile, level, "failed")
            /\ exitCode' = 1
  /\ UNCHANGED <<revision, timeout, interval, config, logging, nargs,
                 connected, closed, level, nConnect, calls, callVars,
                 sinceReturn>>

\* The call of ForceReannounce runs while main waits for it.
MainRun == mainPc = "call" /\ Next

MainNext ==
  \/ MainLoadConfig
  \/ MainNewLogger
  \/ MainCheckArgs
  \/ MainConnect
  \/ MainCall
  \/ MainExit
  \/ MainRun

MainSpec == MainInit /\ [][MainNext]_vars

\* loadConfig alone, on every retry and logging section of the bounded
\* domain: timeout and interval missing (0), negative or positive; file name
\* and level missing ("") or set.
ConfigInit ==
  /\ revision \in {"status", "command"}
  /\ mainPc = "load"
  /\ config \in [Timeout : (0 - 1)..MaxConfig, Interval : (0 - 1)..MaxConfig]
  /\ logging \in [File  : {"", "reannounce.log"},
                  Level : {<<>>, LevelInfo, LevelDebug,
                           <<"d", "e", "b", "u", "g">>}]
  /\ nargs = 3
  /\ connected = FALSE
  /\ nConnect = 0
  /\ closed = FALSE
  /\ exitCode = -1
  /\ level = <<>>
  /\ logFile = EmptyLog
  /\ calls = NoCalls
  /\ timeout = 0
  /\ interval = 0
  /\ now = 0
  /\ tickIn = 0
  /\ tickReady = FALSE
  /\ timeoutReady = FALSE
  /\ pc = "idle"
  /\ remaining = 0
  /\ attempts = 0
  /\ status = NoStatus
  /\ lastErr = 0
  /\ result = "none"
  /\ nTrigger = 0
  /\ nFetch = 0
  /\ lastOutcome = "none"
  /\ firstSat = 0
  /\ sinceTrigger = 0
  /\ overrun = FALSE
  /\ sinceReturn = 0

ConfigSpec == ConfigInit /\ [][MainLoadConfig]_vars

\* ------------------------------------------------------------------------
\* The Logger alone, driven as TestNewLogger drives it (main_test.go 89-155)
\* ------------------------------------------------------------------------

\* The levels a config can name: none, INFO and DEBUG in several spellings.
RawLevels == {<<>>, LevelInfo, <<"i", "n", "f", "o">>, LevelDebug,
              <<"d", "e", "b", "u", "g">>, <<"D", "e", "b", "u", "g">>}

\* main_test.go lines 95-104: a config with a log file and a level; no
\* Logger exists yet.
LoggerInit ==
  /\ revision \in {"status", "command"}
  /\ mainPc = "test"
  /\ logging \in [File : {"test.log"}, Level : RawLevels]
  /\ level = <<>>
  /\ logFile = EmptyLog
  /\ calls = NoCalls
  /\ config = [Timeout |-> 0, Interval |-> 0]
  /\ nargs = 3
  /\ connected = FALSE
  /\ nConnect = 0
  /\ closed = FALSE
  /\ exitCode = -1
  /\ timeout = 0
  /\ interval = 0
  /\ now = 0
  /\ tickIn = 0
  /\ tickReady = FALSE
  /\ timeoutReady = FALSE
  /\ pc = "idle"
  /\ remaining = 0
  /\ attempts = 0
  /\ status = NoStatus
  /\ lastErr = 0
  /\ result = "none"
  /\ nTrigger = 0
  /\ nFetch = 0
  /\ lastOutcome = "none"
  /\ firstSat = 0
  /\ sinceTrigger = 0
  /\ overrun = FALSE
  /\ sinceReturn = 0

\* Everything but the Logger and the position and history of its test.
nonLoggerVars == <<revision, timeout, interval, config, logging, nargs,
                   connected, nConnect, closed, exitCode, callVars,
                   sinceReturn>>

\* main_test.go line 106, part_003 lines 43-64: NewLogger(config).
TestNewLogger ==
  /\ mainPc = "test"
  /\ mainPc' = "testing"
  /\ level' = ToUpper(logging.Level)
  /\ UNCHANGED <<logFile, calls, nonLoggerVars>>

\* main_test.go line 114: logger.Info(testMessage)
TestInfo ==
  /\ mainPc = "testing"
  /\ calls.Info < MaxCalls
  /\ calls' = [calls EXCEPT !.Info = @ + 1]
  /\ logFile' = LoggerInfo(logFile, level, "test")
  /\ UNCHANGED <<mainPc, level, nonLoggerVars>>

\* main_test.go line 115: logger.Debug(testMessage)
TestDebug ==
  /\ mainPc = "testing"
  /\ calls.Debug < MaxCalls
  /\ calls' = [calls EXCEPT !.Debug = @ + 1]
  /\ logFile' = LoggerDebug(logFile, level, "test")
  /\ UNCHANGED <<mainPc, level, nonLoggerVars>>

\* main_test.go line 116: logger.Error(testMessage)
TestError ==
  /\ mainPc = "testing"
  /\ calls.Error < MaxCalls
  /\ calls' = [calls EXCEPT !.Error = @ + 1]
  /\ logFile' = LoggerError(logFile, level, "test")
  /\ UNCHANGED <<mainPc, level, nonLoggerVars>>

LoggerNext == TestNewLogger \/ TestInfo \/ TestDebug \/ TestError

LoggerSpec == LoggerInit /\ [][LoggerNext]_vars

\* ------------------------------------------------------------------------
\* Properties
\* ------------------------------------------------------------------------

Attempting == pc \in {"trigger", "sleep", "fetch"}

\* C1: the bool revision returns true only from an attempt whose snapshot has
\* State Downloading or Seeding and TrackerStatus "Announce OK"; Seeding with
\* another tracker status, or "Announce OK" with another state, is no success.
C1_SuccessIsConjunctive ==
  (revision = "status" /\ result = "success") =>
     /\ status.State \in {"Downloading", "Seeding"}
     /\ status.TrackerStatus = "Announce OK"
     /\ pc = "done" /\ lastOutcome = "announced"

\* C1 witness: success on a Seeding / "Announce OK" snapshot after an earlier
\* attempt fetched a snapshot that was not accepted.
C1_Witness ==
  /\ revision = "status" /\ result = "success"
  /\ status = [State |-> "Seeding", TrackerStatus |-> "Announce OK"]
  /\ nFetch >= 2

\* C2: with 0 < interval <= timeout (interval = timeout included) a run of
\* the bool revision has made at least one attempt, i.e. sent at least one
\* reannounce command, when it returns.
C2_AtLeastOneAttempt ==
  (revision = "status" /\ interval <= timeout /\ pc = "done") =>
     (attempts >= 1 /\ nTrigger >= 1)

\* C2 witness: a run with interval = timeout has returned after one attempt.
C2_Witness ==
  /\ revision = "status" /\ interval = timeout /\ pc = "done"
  /\ nTrigger = 1

\* C3: with interval > timeout the bool revision makes no attempt (no
\* reannounce command, no status fetch) and returns false at the deadline
\* with attempts = 0.
C3_NoAttemptWhenIntervalExceedsTimeout ==
  (revision = "status" /\ interval > timeout) =>
     /\ attempts = 0 /\ nTrigger = 0 /\ nFetch = 0
     /\ ~Attempting
     /\ (pc = "done" => result = "timeout" /\ now = timeout)

\* C3 witness: a run with interval > timeout has returned false.
C3_Witness ==
  /\ revision = "status" /\ interval > timeout
  /\ pc = "done" /\ result = "timeout"

\* C4 (as claimed): main.go's ForceReannounce returns nil only when a
\* reannounce command was accepted; a deadline reached without an accepted
\* command gives an error, also when no tick fired before it.
C4_NilOnlyWhenAccepted ==
  (revision = "command" /\ pc = "done" /\ result = "nil") =>
     lastOutcome = "accepted"

\* C5: the bool revision returns only from a snapshot that satisfies the
\* success condition (true) or from the deadline channel, which is ready no
\* earlier than the deadline (false); no error of a session call ends it.
C5_ExitsOnlyBySuccessOrDeadline ==
  [][(revision = "status" /\ pc # "done" /\ pc' = "done") =>
        \/ pc = "fetch" /\ result' = "success" /\ IsSuccess(status')
        \/ pc = "select" /\ timeoutReady /\ now >= timeout
             /\ result' = "timeout"]_vars

\* C5 witness: a run that returned false at the deadline after a status
\* fetch and, in a later attempt, a reannounce command had failed.
C5_Witness ==
  /\ revision = "status" /\ pc = "done" /\ result = "timeout"
  /\ lastOutcome = "triggerError" /\ nTrigger >= 2 /\ nFetch >= 1

\* A tick is still to be received before the deadline: one is buffered and
\* the deadline has not come, or the next expiry of the ticker precedes it.
TickBeforeDeadline ==
  /\ ~timeoutReady
  /\ \/ tickReady /\ now < timeout
     \/ now + tickIn < timeout

\* C6: in both revisions, when an attempt has ended with an error of a
\* session call (reannounce command or status fetch) and a tick is still to
\* come before the deadline, the next attempt is eventually made (its
\* reannounce command is sent).
C6_NextAttemptAfterError ==
  (lastOutcome \in {"triggerError", "fetchError"} /\ TickBeforeDeadline)
     ~> (pc = "trigger")

\* C6 witness: the second attempt is under way after the first one ended
\* with a failed status fetch.
C6_Witness ==
  /\ nTrigger = 2 /\ nFetch = 1 /\ pc = "trigger" /\ status = NoStatus
  /\ now < timeout

\* C9: every run of the bool revision eventually returns, with true
\* (Succeeded) or false (TimedOut), also when the interval is shorter than
\* an attempt, so that a tick is buffered at every select after the deadline.
C9_Terminates ==
  (revision = "status") =>
     <>(pc = "done" /\ result \in {"success", "timeout"})

\* C9 witness: false was returned at a select that also had a tick buffered,
\* in a run whose interval is shorter than the grace sleep of an attempt.
C9_Witness ==
  /\ revision = "status" /\ pc = "done" /\ result = "timeout"
  /\ tickReady /\ interval < Grace /\ nFetch >= 2

\* C7 (as claimed): every reannounce command of the bool revision is sent at
\* a time strictly before the deadline.
C7_AttemptsStartBeforeDeadline ==
  [][(revision = "status" /\ pc = "select" /\ pc' = "trigger") =>
        now < timeout]_vars

\* C8 (as claimed): the bool revision is never inside an attempt (session
\* call or grace sleep) after the deadline, and never returns true after it.
C8_BlocksAtMostTimeout ==
  revision = "status" =>
     /\ (Attempting => now <= timeout)
     /\ (result = "success" => now <= timeout)

\* C10: when the bool revision returns true, attempts is the ordinal, among
\* all reannounce commands sent (failed attempts included), of the first
\* attempt whose snapshot satisfied the success condition.
C10_SuccessCountIsOrdinal ==
  revision = "status" =>
     /\ (result = "success" => attempts = firstSat /\ firstSat >= 1)
     /\ (firstSat # 0 => result = "success")

\* C10 witness: true is returned by the third attempt, after an attempt
\* whose command failed (it fetched no status).
C10_Witness ==
  /\ revision = "status" /\ result = "success"
  /\ attempts = 3 /\ nFetch < nTrigger

\* C11 (as claimed): in the bool revision the count reported at the timeout
\* is the number of attempts made before the deadline passed: an attempt
\* is counted when, and only when, it starts before the deadline.
C11_TimeoutCountsAttemptsBeforeDeadline ==
  [][(revision = "status" /\ pc = "select" /\ pc' = "trigger") =>
        ((attempts' = attempts + 1) <=> (now < timeout))]_vars

\* C12 (as claimed): when the bool revision has returned, at most
\* floor(timeout / interval) + 1 attempts have been made.
C12_AttemptsBounded ==
  (revision = "status" /\ pc = "done") =>
     nTrigger <= (timeout \div interval) + 1

\* C13 (as claimed): with timeout = 10 and interval = 3 the attempts of the
\* bool revision start at t = 3, 6 and 9 (none at t = 0), and a run in which
\* none succeeds returns false with attempts = 3.
C13_ScenarioAsClaimed ==
  /\ [][(revision = "status" /\ pc = "select" /\ pc' = "trigger") =>
           (now \in {3, 6, 9} /\ now = 3 * nTrigger')]_vars
  /\ []((revision = "status" /\ pc = "done" /\ result = "timeout") =>
           attempts = 3)

\* C13 (amended): the same, for runs in which every attempt lasts less than
\* one interval.
C13_ScenarioWithShortAttempts ==
  /\ [][(revision = "status" /\ pc = "select" /\ pc' = "trigger"
           /\ ~overrun) =>
           (now \in {3, 6, 9} /\ now = 3 * nTrigger')]_vars
  /\ []((revision = "status" /\ pc = "done" /\ result = "timeout"
           /\ ~overrun) =>
           (attempts = 3 /\ nTrigger = 3 /\ now >= 10))

\* C13 witness: false returned after three attempts that each lasted less
\* than one interval, the last one with a status fetch.
C13_Witness ==
  /\ revision = "status" /\ pc = "done" /\ result = "timeout"
  /\ ~overrun /\ attempts = 3 /\ lastOutcome = "notYet" /\ timeout = 10

\* The first status fetch of the run has returned a Seeding / "Announce OK"
\* snapshot (status is written by a returning fetch only).
FirstFetchAnnounced ==
  /\ revision = "status" /\ nFetch = 1
  /\ status = [State |-> "Seeding", TrackerStatus |-> "Announce OK"]

\* C14 (as claimed): when the first status fetch of a run returns a Seeding /
\* "Announce OK" snapshot, the bool revision returns true with attempts = 1.
C14_FirstFetchGivesAttemptOne ==
  FirstFetchAnnounced => (result = "success" /\ attempts = 1)

\* C14 (amended): it then returns true, and attempts is the ordinal of the
\* attempt that made this fetch: 1 plus the number of earlier attempts,
\* whose reannounce commands all failed; it is 1 when the first command was
\* accepted.
C14_FirstFetchGivesItsAttempt ==
  FirstFetchAnnounced =>
     /\ result = "success" /\ pc = "done"
     /\ attempts = nTrigger /\ attempts = firstSat /\ attempts >= 1

\* C14 witness: true returned from the first status fetch, made by the second
\* attempt after the first reannounce command failed.
C14_Witness ==
  FirstFetchAnnounced /\ result = "success" /\ attempts = 2

\* C15 (as claimed): in the bool revision, when every reannounce command has
\* failed and the call ends at the deadline, attempts counts every command
\* sent and the result holds the error of the last one.
C15_TimeoutCarriesLastFailure ==
  ( /\ revision = "status" /\ pc = "done" /\ result = "timeout"
    /\ nTrigger >= 1 /\ nFetch = 0 ) =>
       (attempts = nTrigger /\ lastErr = nTrigger)

\* C16: a session call is issued only while none is in flight; a status fetch
\* is issued only after the sleep that follows the accepted reannounce
\* command of the attempt under way; the next attempt's command is issued
\* only from the select, after the previous attempt has ended (its command
\* failed, its fetch failed or its snapshot was evaluated); no fetch precedes
\* its attempt's command.
C16_AttemptsSequential ==
  /\ [][ /\ (revision = "status" /\ pc' = "fetch" /\ pc # "fetch") =>
               /\ pc = "sleep" /\ lastOutcome = "pending"
               /\ lastOutcome' = "pending" /\ nTrigger' = nTrigger
         /\ (revision = "status" /\ pc' = "trigger" /\ pc # "trigger") =>
               /\ pc = "select"
               /\ lastOutcome \in {"none", "triggerError", "fetchError",
                                   "notYet"}
               /\ lastOutcome' = "pending" /\ nFetch' = nFetch
         /\ (revision = "status" /\ pc = "trigger" /\ pc' # "trigger") =>
               pc' \in {"sleep", "select"} ]_vars
  /\ [](revision = "status" => nFetch <= nTrigger)

\* C16 witness: the second attempt's status fetch is in flight, after a first
\* attempt that went through command, sleep, fetch and evaluation.
C16_Witness ==
  /\ revision = "status" /\ pc = "fetch" /\ lastOutcome = "pending"
  /\ nTrigger = 2 /\ nFetch = 2

\* The process has ended: through os.Exit or log.Fatalf, or by a panic.
Exited == mainPc \in {"exited", "panicked"}

\* C17 (as claimed): whenever the process has ended after a successful
\* Connect, DelugeClient.Close has been called.
C17_ClosedOnEveryExit ==
  (Exited /\ connected) => closed

\* C18 (as claimed): the process ends with exit code 0 exactly when an
\* attempt of the call observed the success condition of its revision (the
\* snapshot test of part_003, the accepted command of main.go).
C18_ExitZeroIffSucceeded ==
  Exited => (exitCode = 0 <=> lastOutcome \in {"announced", "accepted"})

\* C19 (as claimed): a reannounce command sent before the deadline is sent
\* no less than one interval after the previous one (after the start of the
\* call, for the first one).
C19_AttemptsSpacedByInterval ==
  [][(revision = "status" /\ pc = "select" /\ pc' = "trigger"
        /\ now < timeout) => sinceTrigger >= interval]_vars

\* C20 (as claimed): once main has entered ForceReannounce, the timeout and
\* the interval it passed are strictly positive.
C20_RetryPolicyPositive ==
  mainPc \in {"call", "panicked"} => (timeout > 0 /\ interval > 0)

\* C21: once the bool revision has a result (true or false), the call has
\* returned: from then on no reannounce command and no status fetch is
\* issued, and attempts, the result and the timers of the call never change,
\* whatever main does next.
C21_TerminalStatesAreFinal ==
  [][(revision = "status" /\ result # "none") =>
        /\ pc = "done" /\ pc' = "done"
        /\ result' = result /\ attempts' = attempts
        /\ nTrigger' = nTrigger /\ nFetch' = nFetch
        /\ status' = status /\ now' = now]_vars

\* C21 witness: main has gone on (to os.Exit) after the call returned true
\* from its second attempt.
C21_Witness ==
  /\ revision = "status" /\ mainPc = "exited" /\ pc = "done"
  /\ result = "success" /\ attempts = 2 /\ nFetch = 2

\* C22 (as claimed): when the process has ended after a call that failed
\* (false, or an error) and the logging level is INFO, the log file holds
\* the entry of the failure.
C22_FailureIsLoggedAtInfo ==
  ( /\ mainPc = "exited" /\ pc = "done" /\ result \in {"timeout", "error"}
    /\ level = LevelInfo ) =>
       \E e \in LogEntries : e.msg = "failed" /\ logFile[e] >= 1

\* C23: loadConfig returns 120 for a retry timeout of 0 and 7 for a retry
\* interval of 0, "deluge-reannounce.log" for an empty log file name and
\* "INFO" for an empty level, and returns every other value, negative ones
\* included, as it is in the file.
C23_DefaultsExactlyForUnset ==
  [][(mainPc = "load" /\ mainPc' = "logger") =>
        /\ config'.Timeout = (IF config.Timeout = 0 THEN 120
                                ELSE config.Timeout)
        /\ config'.Interval = (IF config.Interval = 0 THEN 7
                                 ELSE config.Interval)
        /\ logging'.File = (IF logging.File = ""
                              THEN "deluge-reannounce.log" ELSE logging.File)
        /\ logging'.Level = (IF logging.Level = <<>>
                               THEN <<"I", "N", "F", "O">>
                               ELSE logging.Level)]_vars

\* C23 witness: loadConfig has returned with the default timeout and file
\* name in place of the missing ones, and the interval -1 and the level
\* "debug" of the file kept.
C23_Witness ==
  /\ mainPc = "logger"
  /\ config = [Timeout |-> 120, Interval |-> 0 - 1]
  /\ logging = [File |-> "deluge-reannounce.log",
                Level |-> <<"d", "e", "b", "u", "g">>]

\* C24: an attempt whose reannounce command fails ends at once, with no
\* pause, no status fetch and no result; the pause and the status fetch
\* belong to an attempt whose command was accepted, and true comes from an
\* attempt that fetched a snapshot.
C24_FetchOnlyAfterAcceptedTrigger ==
  /\ [][ /\ (revision = "status" /\ pc = "trigger" /\ pc' # "trigger"
               /\ lastOutcome' = "triggerError") =>
               /\ pc' = "select" /\ now' = now /\ nFetch' = nFetch
               /\ result' = "none" /\ status' = status
         /\ (revision = "status" /\ nFetch' # nFetch) =>
               (pc = "sleep" /\ lastOutcome = "pending") ]_vars
  /\ [](revision = "status" =>
          /\ (pc \in {"sleep", "fetch"} => lastOutcome = "pending")
          /\ (result = "success" => lastOutcome = "announced")
          /\ (lastOutcome = "triggerError" => pc \in {"select", "done"}))

\* C24 witness: the second attempt's command has failed and the loop is back
\* at the select; only the first attempt has fetched the status.
C24_Witness ==
  /\ revision = "status" /\ pc = "select" /\ lastOutcome = "triggerError"
  /\ nTrigger = 2 /\ nFetch = 1

\* C25: the status fetch of an attempt is issued when Grace (2) units have
\* passed since the attempt's reannounce command returned, and not before,
\* for every timeout and interval.
C25_FetchAfterGrace ==
  [][(revision = "status" /\ pc = "sleep" /\ pc' = "fetch") =>
        (sinceReturn = 2 /\ sinceReturn = Grace)]_vars

\* C25 witness: the status fetch of the second attempt has been issued at
\* t = 5 (attempts at t = 1 and t = 3), with an interval shorter than the
\* pause.
C25_Witness ==
  /\ revision = "status" /\ pc = "fetch" /\ nFetch = 2 /\ nTrigger = 2
  /\ interval = 1 /\ timeout = 4 /\ now = 5

\* C26 (as claimed): the loop never has to choose: when it is at the select,
\* at most one of the two cases (tick, deadline) is ready, so that the run
\* is a function of the timeout, the interval, the call durations and the
\* session responses.
C26_OneCaseReadyAtSelect ==
  (revision = "status" /\ pc = "select") => ~(tickReady /\ timeoutReady)

\* C28 (as claimed): in main.go the attempt number of the timeout error is
\* the number of reannounce commands sent.
C28_ErrorCountIsCommandsSent ==
  ( /\ revision = "command" /\ pc = "done" /\ result = "error"
    /\ attempts < MaxAttempts ) => attempts = nTrigger

\* C29: in main.go, lastErr changes only when a reannounce command fails, and
\* then holds that command's error; the error returned at the deadline wraps
\* the error of the latest command, which failed as every command before
\* it; the first accepted command ends the call with nil.
C29_ErrorWrapsLatestFailure ==
  /\ [][(revision = "command" /\ lastErr' # lastErr) =>
           /\ pc = "trigger" /\ lastOutcome' = "triggerError"
           /\ lastErr' = nTrigger]_vars
  /\ [][(revision = "command" /\ pc = "trigger" /\ pc' # "trigger"
           /\ lastOutcome' = "accepted") =>
           (pc' = "done" /\ result' = "nil")]_vars
  /\ []((revision = "command" /\ result = "error") =>
           /\ pc = "done" /\ nTrigger >= 1
           /\ lastErr = nTrigger /\ lastOutcome = "triggerError")
  /\ []((revision = "command" /\ lastOutcome = "accepted") =>
           /\ pc = "done" /\ result = "nil"
           /\ (nTrigger < MaxAttempts => lastErr = nTrigger - 1))

\* C29 witness: the deadline error after two commands, both failed, holding
\* the error of the second.
C29_Witness ==
  /\ revision = "command" /\ pc = "done" /\ result = "error"
  /\ nTrigger = 2 /\ lastErr = 2

\* C27: main calls Connect at most once; a reannounce command or a status
\* fetch is issued, and ForceReannounce is entered, only after that one call
\* succeeded; a process that has ended without a connection (wrong argument
\* count, failed Connect, or no config or log file) has a non-zero exit code
\* and has issued no command and no fetch; with an argument count other
\* than 3 Connect is not even called.
C27_ConnectedOnceBeforeLoop ==
  /\ nConnect <= 1
  /\ (connected => nConnect = 1)
  /\ ((pc # "idle" \/ nTrigger > 0 \/ nFetch > 0) =>
         (connected /\ nConnect = 1 /\ nargs = 3))
  /\ ((mainPc = "exited" /\ ~connected) =>
         (exitCode # 0 /\ exitCode # -1 /\ pc = "idle"
            /\ nTrigger = 0 /\ nFetch = 0))
  /\ (nargs # 3 => (nConnect = 0 /\ mainPc \in {"load", "logger", "args",
                                                 "exited"}))

\* C27 witness: Connect was called once and failed; the process has ended
\* with exit code 1 before any reannounce command.
C27_Witness ==
  /\ mainPc = "exited" /\ nargs = 3 /\ nConnect = 1 /\ ~connected
  /\ exitCode = 1 /\ nTrigger = 0

\* The spellings of the level that are "DEBUG" once in upper case.
DebugSpellings == {<<"D", "E", "B", "U", "G">>, <<"d", "e", "b", "u", "g">>,
                   <<"D", "e", "b", "u", "g">>}

\* C30: the log file holds one "INFO: " entry for every call of Info,
\* whatever the level; one "DEBUG: " entry for every call of Debug and one
\* "DEBUG: ... ERROR: " entry for every call of Error when the configured
\* level is DEBUG in any spelling, and none of either otherwise; nothing
\* else is written.
C30_LevelGating ==
  mainPc = "testing" =>
    LET isDebug == logging.Level \in DebugSpellings
        entry(pre, err) == [prefix |-> pre, error |-> err, msg |-> "test"]
    IN /\ logFile[entry("INFO", FALSE)] = calls.Info
       /\ logFile[entry("DEBUG", FALSE)] =
             (IF isDebug THEN calls.Debug ELSE 0)
       /\ logFile[entry("DEBUG", TRUE)] =
             (IF isDebug THEN calls.Error ELSE 0)
       /\ \A e \in LogEntries :
             (e.msg # "test" \/ (e.prefix = "INFO" /\ e.error)) =>
                logFile[e] = 0

\* C30 witness: with the level "debug" in the config, one call of each of
\* Info, Debug and Error has left one INFO, one DEBUG and one ERROR entry.
C30_Witness ==
  /\ mainPc = "testing" /\ logging.Level = <<"d", "e", "b", "u", "g">>
  /\ calls = [Info |-> 1, Debug |-> 1, Error |-> 1]
  /\ logFile[[prefix |-> "INFO", error |-> FALSE, msg |-> "test"]] = 1
  /\ logFile[[prefix |-> "DEBUG", error |-> FALSE, msg |-> "test"]] = 1
  /\ logFile[[prefix |-> "DEBUG", error |-> TRUE, msg |-> "test"]] = 1

TypeOK ==
  /\ revision \in {"status", "command"}
  /\ now \in 0..MaxNow
  /\ tickIn \in 0..(IF interval > 0 THEN interval ELSE 0)
  /\ tickReady \in BOOLEAN /\ timeoutReady \in BOOLEAN
  /\ pc \in {"idle", "top", "select", "trigger", "sleep", "fetch", "done"}
  /\ remaining \in 0..(IF Grace > MaxCallDur THEN Grace ELSE MaxCallDur)
  /\ attempts \in 0..MaxAttempts
  /\ status \in Snapshots \cup {NoStatus}
  /\ lastErr \in 0..MaxAttempts
  /\ result \in {"none", "success", "timeout", "nil", "error"}
  /\ nTrigger \in 0..MaxAttempts /\ nFetch \in 0..MaxAttempts
  /\ firstSat \in 0..MaxAttempts
  /\ mainPc \in {"load", "logger", "args", "connect", "invoke", "call",
                  "exited", "panicked", "test", "testing"}
  /\ logFile \in [LogEntries -> 0..MaxAttempts]
  /\ nargs \in {2, 3} /\ connected \in BOOLEAN /\ closed \in BOOLEAN
  /\ exitCode \in {-1, 0, 1, 2}

====
